---- MODULE Spec2Model ----
(***************************************************************************)
(* The voice conversation controller of vettan-ai                          *)
(* (frontend/src/components/research/voice-mode.tsx, component VoiceMode). *)
(*                                                                         *)
(* The component is a React function component.  Every event handler, timer*)
(* callback and promise continuation is one action: the handler body, the  *)
(* re-render it causes and the effects that re-run because their           *)
(* dependencies changed are taken together, as React commits them.         *)
(* The browser capabilities (SpeechRecognition, speechSynthesis, fetch) are*)
(* the environment: their sessions and pending events are state, and each  *)
(* event they can deliver is an action that runs the installed handler.    *)
(* The display-only values sourceCount and the rendered markup, which no   *)
(* handler reads, are left out.                                            *)
(***************************************************************************)
EXTENDS Integers, Sequences, FiniteSets, TLC

\* ---------------------------------------------------------------- bounds
MaxRpc == 2          \* most /api/research requests in flight
MaxSynth == 1        \* most utterances queued in speechSynthesis
MaxTimers == 1       \* most pending setTimeout callbacks (the start timer apart)

\* ---------------------------------------------------------------- texts
\* the transcripts a recognition result can carry, as character sequences:
\* empty, whitespace only, plain, and padded with whitespace
Texts == {<<>>, <<" ">>, <<"a">>, <<" ", "a", " ">>}

\* String.prototype.trim, as used by `!text.trim()`
RECURSIVE TrimStart(_)
TrimStart(t) == IF t # <<>> /\ Head(t) = " " THEN TrimStart(Tail(t)) ELSE t

RECURSIVE TrimEnd(_)
TrimEnd(t) ==
  IF t # <<>> /\ t[Len(t)] = " " THEN TrimEnd(SubSeq(t, 1, Len(t) - 1)) ELSE t

Trim(t) == TrimEnd(TrimStart(t))

\* data.output of a response: the report, or undefined when the body parses
\* but carries no output field
Report == <<"report">>
NoOutput == <<"undefined">>
Outputs == {Report, NoOutput}

VoiceState == {"idle", "listening", "processing", "speaking"}

\* event.error of a SpeechRecognitionErrorEvent, as far as onerror tells them apart
ErrorKinds == {"not-allowed", "aborted", "network"}

\* the setTimeout callbacks other than the grace-delay start timer
TimerKinds == {"rearmAfterFailure", "rearmAfterSpeech", "restartAfterEnd", "restartAfterError"}

NoArg == <<>>
Call(op, arg) == [op |-> op, arg |-> arg]

\* ------------------------------------------------------------ the page
\* the research requests of the search bar and the history loads of the
\* page that the model lets be in flight together
MaxPosts == 2
MaxGets == 1

\* session ids of the history list, and null
Sessions == {"s1", "s2"}
NoSession == "null"

\* a request of handleSubmit closes over the session it follows up, or null
FollowUps == Sessions \cup {NoSession}

\* the state of Home after its first render, with the search bar it renders
Home ==
  [isLoading |-> FALSE, query |-> <<>>, hasResults |-> FALSE,
   currentSessionId |-> NoSession,
   posts |-> [f \in FollowUps |-> 0], gets |-> 0]

\* the /api/research requests of handleSubmit that have not settled
PostsInFlight(pg) == pg.posts["null"] + pg.posts["s1"] + pg.posts["s2"]

VARIABLES
  isOpen,               \* prop isOpen
  state,                \* useState<VoiceState>('idle')
  transcript,           \* useState('')
  response,             \* useState('')
  micPermissionDenied,  \* useState(false)
  recognitionRef,       \* the SpeechRecognition object and the render its handlers close over
  isInitializedRef,     \* useRef(false)
  supported,            \* window.SpeechRecognition || window.webkitSpeechRecognition exists
  cap,                  \* the recognition session of the browser
  startTimer,           \* the 300 ms grace-delay timer is pending
  timers,               \* pending setTimeout callbacks, by kind
  rpcs,                 \* fetch requests in flight
  synthQ,               \* utterances queued or playing in speechSynthesis
  synthCancelled,       \* cancelled utterances whose end event may still arrive
  animationFrameRef,    \* the pending animation frame: the state its loop closes over, or "none"
  animationLoops,       \* the animate() loops that have a frame requested
  page,                 \* the page around the voice surface: its loading flag, search bar and requests
  ev,                   \* the event handled by the last step
  calls                 \* the capability calls the last step made, in order

vars == <<isOpen, state, transcript, response, micPermissionDenied,
          recognitionRef, isInitializedRef, supported, cap, startTimer, timers,
          rpcs, synthQ, synthCancelled, animationFrameRef, animationLoops, page, ev, calls>>

NoRecognition == [created |-> FALSE, state |-> "idle", isOpen |-> FALSE]

TypeOK ==
  /\ isOpen \in BOOLEAN
  /\ state \in VoiceState
  /\ transcript \in Texts
  /\ response \in Outputs \cup {<<>>}
  /\ micPermissionDenied \in BOOLEAN
  /\ recognitionRef \in [created : BOOLEAN, state : VoiceState, isOpen : BOOLEAN]
  /\ isInitializedRef \in BOOLEAN
  /\ supported \in BOOLEAN
  /\ cap \in {"off", "starting", "on", "stopStarting", "stopping", "ending"}
  /\ startTimer \in BOOLEAN
  /\ timers \in [TimerKinds -> 0..MaxTimers]
  /\ rpcs \in 0..MaxRpc
  /\ synthQ \in 0..MaxSynth
  /\ synthCancelled \in 0..MaxSynth
  /\ animationFrameRef \in VoiceState \cup {"none"}
  /\ animationLoops \in Nat
  /\ page \in [isLoading : BOOLEAN, query : Texts, hasResults : BOOLEAN,
              currentSessionId : FollowUps,
              posts : [FollowUps -> 0..MaxPosts], gets : 0..MaxGets]

\* ------------------------------------------------- the browser capabilities
\* SpeechRecognition.start() raises InvalidStateError unless the previous
\* session has delivered its end event
StartThrows == cap # "off"

\* SpeechRecognition.stop(): the session winds down; a session stopped before
\* its start event may still deliver it; stop() on no session does nothing
Stopped(c) ==
  CASE c = "starting" -> "stopStarting"
    [] c = "on" -> "stopping"
    [] OTHER -> c

Min(a, b) == IF a < b THEN a ELSE b

\* the setTimeout callbacks that are pending
Pending ==
  timers["rearmAfterFailure"] + timers["rearmAfterSpeech"]
    + timers["restartAfterEnd"] + timers["restartAfterError"]

Inc(k) == [timers EXCEPT ![k] = @ + 1]
Dec(k) == [timers EXCEPT ![k] = @ - 1]

\* ------------------------------------------------------------ the effects
\* InitEffect that does not look for the SpeechRecognition constructor
InitEffectWithoutSupportTest(open, st) ==
  IF ~open
    THEN [ref |-> recognitionRef, init |-> isInitializedRef, timer |-> FALSE, alert |-> FALSE]
  ELSE [ref   |-> IF recognitionRef.created THEN recognitionRef
                  ELSE [created |-> TRUE, state |-> st, isOpen |-> open],
        init  |-> TRUE,
        timer |-> ~isInitializedRef,
        alert |-> FALSE]

\* The 'Initialize Speech Recognition' effect body, run at a render with
\* isOpen = open and state = st after its previous cleanup (clearTimeout).
InitEffect(open, st) ==
  IF ~open
    THEN [ref |-> recognitionRef, init |-> isInitializedRef, timer |-> FALSE, alert |-> FALSE]
  ELSE IF ~supported
    THEN [ref |-> recognitionRef, init |-> isInitializedRef, timer |-> FALSE, alert |-> TRUE]
  ELSE [ref   |-> IF recognitionRef.created THEN recognitionRef
                  ELSE [created |-> TRUE, state |-> st, isOpen |-> open],
        init  |-> TRUE,
        timer |-> ~isInitializedRef,
        alert |-> FALSE]

\* The 'Enhanced 3D Particle Sphere Visualizer' effect at a render with
\* isOpen = open and state = st, after its previous cleanup
\* (cancelAnimationFrame): the canvas exists exactly while the surface is
\* open, and animate() requests the first frame of a loop that reads st.
VisualizerEffect(open, st) == IF open THEN st ELSE "none"

\* VisualizerLoops that returns no cleanup
VisualizerLoopsWithoutCleanup(open, n) == n + (IF open THEN 1 ELSE 0)

\* The loops with a frame requested after the same effect ran with n loops
\* before: the cleanup of a run that started a loop cancels the frame held
\* by animationFrameRef, and the body starts a loop when the surface is open.
VisualizerLoops(open, n) ==
  (IF n > 0 THEN n - 1 ELSE 0) + (IF open THEN 1 ELSE 0)

\* the particle population the effect creates for a loop that reads st
ParticleCount(st) == IF st = "listening" THEN 800 ELSE 500

\* animate() adds random energy to every particle
Jitter(st) == st \in {"listening", "speaking"}

\* Rerender with a visualizer effect that depends on [isOpen] only
RerenderKeepingLoop(st) ==
  /\ recognitionRef' = IF st # state THEN InitEffect(isOpen, st).ref ELSE recognitionRef
  /\ isInitializedRef' = IF st # state THEN InitEffect(isOpen, st).init ELSE isInitializedRef
  /\ startTimer' = IF st # state THEN InitEffect(isOpen, st).timer ELSE startTimer
  /\ UNCHANGED <<animationFrameRef, animationLoops>>

\* The commit after a handler left state = st with isOpen unchanged: the
\* effect depends on [isOpen, state] and re-runs only when state changed.
Rerender(st) ==
  /\ recognitionRef' = IF st # state THEN InitEffect(isOpen, st).ref ELSE recognitionRef
  /\ isInitializedRef' = IF st # state THEN InitEffect(isOpen, st).init ELSE isInitializedRef
  /\ startTimer' = IF st # state THEN InitEffect(isOpen, st).timer ELSE startTimer
  /\ animationFrameRef' = IF st # state THEN VisualizerEffect(isOpen, st)
                                        ELSE animationFrameRef
  /\ animationLoops' = IF st # state THEN VisualizerLoops(isOpen, animationLoops)
                                     ELSE animationLoops

Notices(st) ==
  IF st # state /\ InitEffect(isOpen, st).alert THEN <<Call("alert", NoArg)>> ELSE <<>>

Init ==
  /\ isOpen = FALSE
  /\ state = "idle"
  /\ transcript = <<>>
  /\ response = <<>>
  /\ micPermissionDenied = FALSE
  /\ recognitionRef = NoRecognition
  /\ isInitializedRef = FALSE
  /\ supported \in BOOLEAN
  /\ cap = "off"
  /\ startTimer = FALSE
  /\ timers = [k \in TimerKinds |-> 0]
  /\ rpcs = 0
  /\ synthQ = 0
  /\ synthCancelled = 0
  /\ animationFrameRef = "none"
  /\ animationLoops = 0
  /\ page = Home
  /\ ev = "mount"
  /\ calls = <<>>

\* ------------------------------------------------------------ user actions
\* open(): the parent renders the component with isOpen = true
Open ==
  /\ ~isOpen
  /\ isOpen' = TRUE
  /\ recognitionRef' = InitEffect(TRUE, state).ref
  /\ isInitializedRef' = InitEffect(TRUE, state).init
  /\ startTimer' = InitEffect(TRUE, state).timer
  /\ animationFrameRef' = VisualizerEffect(TRUE, state)
  /\ animationLoops' = VisualizerLoops(TRUE, animationLoops)
  /\ calls' = IF InitEffect(TRUE, state).alert THEN <<Call("alert", NoArg)>> ELSE <<>>
  /\ ev' = "open"
  /\ UNCHANGED page
  /\ UNCHANGED <<state, transcript, response, micPermissionDenied,
                 supported, cap, timers, rpcs, synthQ, synthCancelled>>

\* Close with a cleanup effect that leaves the transcript as it is
CloseKeepingTranscript ==
  /\ isOpen
  /\ isOpen' = FALSE
  /\ startTimer' = FALSE
  /\ isInitializedRef' = FALSE
  /\ cap' = IF recognitionRef.created THEN Stopped(cap) ELSE cap
  /\ synthCancelled' = Min(MaxSynth, synthCancelled + synthQ)
  /\ synthQ' = 0
  /\ state' = "idle"
  /\ micPermissionDenied' = FALSE
  /\ animationFrameRef' = VisualizerEffect(FALSE, "idle")
  /\ animationLoops' = VisualizerLoops(FALSE, animationLoops)
  /\ calls' = (IF recognitionRef.created THEN <<Call("stop", NoArg)>> ELSE <<>>)
              \o <<Call("cancel", NoArg)>>
  /\ ev' = "close"
  /\ UNCHANGED page
  /\ UNCHANGED <<transcript, response, recognitionRef, supported, timers, rpcs>>

\* close(): the parent renders the component with isOpen = false; the init
\* effect's cleanup clears the start timer and the 'Cleanup when closed'
\* effect runs
Close ==
  /\ isOpen
  /\ isOpen' = FALSE
  /\ startTimer' = FALSE
  /\ isInitializedRef' = FALSE
  /\ cap' = IF recognitionRef.created THEN Stopped(cap) ELSE cap
  /\ synthCancelled' = Min(MaxSynth, synthCancelled + synthQ)
  /\ synthQ' = 0
  /\ state' = "idle"
  /\ transcript' = <<>>
  /\ micPermissionDenied' = FALSE
  /\ animationFrameRef' = VisualizerEffect(FALSE, "idle")
  /\ animationLoops' = VisualizerLoops(FALSE, animationLoops)
  /\ calls' = (IF recognitionRef.created THEN <<Call("stop", NoArg)>> ELSE <<>>)
              \o <<Call("cancel", NoArg)>>
  /\ ev' = "close"
  /\ UNCHANGED page
  /\ UNCHANGED <<response, recognitionRef, supported, timers, rpcs>>

\* CloseAgain with a parent that toggles isOpen instead of clearing it
CloseAgainToggling ==
  /\ ~isOpen
  /\ isOpen' = TRUE
  /\ recognitionRef' = InitEffect(TRUE, state).ref
  /\ isInitializedRef' = InitEffect(TRUE, state).init
  /\ startTimer' = InitEffect(TRUE, state).timer
  /\ animationFrameRef' = VisualizerEffect(TRUE, state)
  /\ animationLoops' = VisualizerLoops(TRUE, animationLoops)
  /\ calls' = IF InitEffect(TRUE, state).alert THEN <<Call("alert", NoArg)>> ELSE <<>>
  /\ ev' = "closeAgain"
  /\ UNCHANGED page
  /\ UNCHANGED <<state, transcript, response, micPermissionDenied,
                 supported, cap, timers, rpcs, synthQ, synthCancelled>>

\* close() on a surface that is already closed: the parent renders the
\* component with isOpen = false again; no dependency of an effect changed,
\* so no cleanup and no effect runs
CloseAgain ==
  /\ ~isOpen
  /\ ev' = "closeAgain"
  /\ UNCHANGED page
  /\ calls' = <<>>
  /\ UNCHANGED <<isOpen, state, transcript, response, micPermissionDenied,
                 recognitionRef, isInitializedRef, supported, cap, startTimer,
                 timers, rpcs, synthQ, synthCancelled, animationFrameRef, animationLoops>>

\* toggleListening of the current render
ToggleListening ==
  IF ~recognitionRef.created
    THEN /\ calls' = <<Call("alert", NoArg)>>
         /\ UNCHANGED <<animationFrameRef, animationLoops, state, cap, recognitionRef, isInitializedRef, startTimer>>
  ELSE IF state = "listening"
    THEN /\ cap' = Stopped(cap)
         /\ state' = "idle"
         /\ calls' = <<Call("stop", NoArg)>> \o Notices("idle")
         /\ Rerender("idle")
  ELSE IF state = "idle" /\ ~StartThrows
    THEN /\ cap' = "starting"
         /\ state' = "listening"
         /\ calls' = <<Call("start", NoArg)>> \o Notices("listening")
         /\ Rerender("listening")
  ELSE IF state = "idle"
    THEN /\ calls' = <<Call("start", NoArg)>>
         /\ UNCHANGED <<animationFrameRef, animationLoops, state, cap, recognitionRef, isInitializedRef, startTimer>>
  ELSE /\ calls' = <<>>
       /\ UNCHANGED <<animationFrameRef, animationLoops, state, cap, recognitionRef, isInitializedRef, startTimer>>

\* ToggleMute with a button that the denied microphone does not disable
ToggleMuteIgnoringDenial ==
  /\ isOpen
  /\ ev' = "toggleMute"
  /\ UNCHANGED page
  /\ IF state \in {"processing", "speaking"}
       THEN /\ calls' = <<>>
            /\ UNCHANGED <<animationFrameRef, animationLoops, state, cap, recognitionRef, isInitializedRef, startTimer>>
       ELSE ToggleListening
  /\ UNCHANGED <<isOpen, transcript, response, micPermissionDenied,
                 supported, timers, rpcs, synthQ, synthCancelled>>

\* ToggleMute with a button that only the denied microphone disables and a
\* handler that mutes from every state but idle
ToggleMuteWhileBusy ==
  /\ isOpen
  /\ ev' = "toggleMute"
  /\ UNCHANGED page
  /\ IF micPermissionDenied
       THEN /\ calls' = <<>>
            /\ UNCHANGED <<animationFrameRef, animationLoops, state, cap, recognitionRef, isInitializedRef, startTimer>>
     ELSE IF state \in {"processing", "speaking"}
       THEN /\ cap' = Stopped(cap)
            /\ state' = "idle"
            /\ calls' = <<Call("stop", NoArg)>> \o Notices("idle")
            /\ Rerender("idle")
       ELSE ToggleListening
  /\ UNCHANGED <<isOpen, transcript, response, micPermissionDenied,
                 supported, timers, rpcs, synthQ, synthCancelled>>

\* a click on the mic button, which is disabled while the agent holds the
\* floor or the microphone is denied
ToggleMute ==
  /\ isOpen
  /\ ev' = "toggleMute"
  /\ UNCHANGED page
  /\ IF state \in {"processing", "speaking"} \/ micPermissionDenied
       THEN /\ calls' = <<>>
            /\ UNCHANGED <<animationFrameRef, animationLoops, state, cap, recognitionRef, isInitializedRef, startTimer>>
       ELSE ToggleListening
  /\ UNCHANGED <<isOpen, transcript, response, micPermissionDenied,
                 supported, timers, rpcs, synthQ, synthCancelled>>

\* the grace-delay timer of the init effect fires
StartTimerFire ==
  /\ startTimer
  /\ startTimer' = FALSE
  /\ IF recognitionRef.created /\ isOpen
       THEN /\ cap' = IF StartThrows THEN cap ELSE "starting"
            /\ calls' = <<Call("start", NoArg)>>
       ELSE /\ cap' = cap
            /\ calls' = <<>>
  /\ ev' = "startTimer"
  /\ UNCHANGED page
  /\ UNCHANGED <<animationFrameRef, animationLoops, isOpen, state, transcript, response, micPermissionDenied,
                 recognitionRef, isInitializedRef, supported, timers, rpcs, synthQ,
                 synthCancelled>>

\* ------------------------------------------------- recognition handlers
\* recognition.onstart
OnStart ==
  /\ cap \in {"starting", "stopStarting"}
  /\ cap' = IF cap = "starting" THEN "on" ELSE "stopping"
  /\ state' = "listening"
  /\ Rerender("listening")
  /\ calls' = Notices("listening")
  /\ ev' = "onstart"
  /\ UNCHANGED page
  /\ UNCHANGED <<isOpen, transcript, response, micPermissionDenied,
                 supported, timers, rpcs, synthQ, synthCancelled>>

\* ProcessVoiceInput that tests the text without trimming it
ProcessVoiceInputUntrimmed(text, c) ==
  IF text = <<>>
    THEN /\ cap' = c
         /\ calls' = <<>>
         /\ UNCHANGED <<animationFrameRef, animationLoops, state, rpcs, recognitionRef, isInitializedRef,
                        startTimer>>
    ELSE /\ rpcs < MaxRpc
         /\ state' = "processing"
         /\ cap' = Stopped(c)
         /\ rpcs' = rpcs + 1
         /\ calls' = <<Call("stop", NoArg), Call("fetch", text)>> \o Notices("processing")
         /\ Rerender("processing")

\* processVoiceInput(text) up to its fetch, called by onresult on a session
\* whose state after delivering the result is c
ProcessVoiceInput(text, c) ==
  IF Trim(text) = <<>>
    THEN /\ cap' = c
         /\ calls' = <<>>
         /\ UNCHANGED <<animationFrameRef, animationLoops, state, rpcs, recognitionRef, isInitializedRef,
                        startTimer>>
    ELSE /\ rpcs < MaxRpc
         /\ state' = "processing"
         /\ cap' = Stopped(c)
         /\ rpcs' = rpcs + 1
         /\ calls' = <<Call("stop", NoArg), Call("fetch", text)>> \o Notices("processing")
         /\ Rerender("processing")

\* OnResult that hands every result, final or not, to processVoiceInput
OnResultIgnoringFinal(text, final) ==
  /\ \/ cap = "on"
     \/ final /\ cap = "stopping"
  /\ transcript' = text
  /\ ProcessVoiceInput(text, IF cap = "stopping" THEN "ending" ELSE cap)
  /\ ev' = IF final THEN "final" ELSE "interim"
  /\ UNCHANGED page
  /\ UNCHANGED <<isOpen, response, micPermissionDenied, supported, timers, synthQ,
                 synthCancelled>>

\* recognition.onresult: text is the joined transcript of the session's
\* results, final tells whether the last result is final.  A session that
\* was stopped may still deliver one final result for the audio it captured.
OnResult(text, final) ==
  /\ \/ cap = "on"
     \/ final /\ cap = "stopping"
  /\ transcript' = text
  /\ IF final
       THEN ProcessVoiceInput(text, IF cap = "stopping" THEN "ending" ELSE cap)
       ELSE /\ calls' = <<>>
            /\ UNCHANGED <<animationFrameRef, animationLoops, state, rpcs, cap, recognitionRef,
                           isInitializedRef, startTimer>>
  /\ ev' = IF final THEN "final" ELSE "interim"
  /\ UNCHANGED page
  /\ UNCHANGED <<isOpen, response, micPermissionDenied, supported, timers, synthQ,
                 synthCancelled>>

\* OnEnd that schedules the restart whenever a session ends
OnEndAlwaysRestarting ==
  /\ cap \in {"on", "stopStarting", "stopping", "ending"}
  /\ cap' = "off"
  /\ Pending < MaxTimers
  /\ timers' = Inc("restartAfterEnd")
  /\ calls' = <<>>
  /\ ev' = "onend"
  /\ UNCHANGED page
  /\ UNCHANGED <<animationFrameRef, animationLoops, isOpen, state, transcript, response, micPermissionDenied,
                 recognitionRef, isInitializedRef, supported, startTimer, rpcs, synthQ,
                 synthCancelled>>

\* OnEnd that takes the end of the session for a mute
OnEndEnteringIdle ==
  /\ cap \in {"on", "stopStarting", "stopping", "ending"}
  /\ cap' = "off"
  /\ timers' = timers
  /\ state' = "idle"
  /\ Rerender("idle")
  /\ calls' = Notices("idle")
  /\ ev' = "onend"
  /\ UNCHANGED page
  /\ UNCHANGED <<isOpen, transcript, response, micPermissionDenied,
                 supported, rpcs, synthQ, synthCancelled>>

\* recognition.onend: the handler reads the state and isOpen of the render
\* that installed it
OnEnd ==
  /\ cap \in {"on", "stopStarting", "stopping", "ending"}
  /\ cap' = "off"
  /\ IF recognitionRef.state = "listening" /\ recognitionRef.isOpen
       THEN /\ Pending < MaxTimers
            /\ timers' = Inc("restartAfterEnd")
       ELSE timers' = timers
  /\ calls' = <<>>
  /\ ev' = "onend"
  /\ UNCHANGED page
  /\ UNCHANGED <<animationFrameRef, animationLoops, isOpen, state, transcript, response, micPermissionDenied,
                 recognitionRef, isInitializedRef, supported, startTimer, rpcs, synthQ,
                 synthCancelled>>

\* OnError that records the denial as a fifth state value
OnErrorEnteringErrorState(kind) ==
  /\ cap \in {"starting", "on"}
  /\ cap' = "ending"
  /\ IF kind = "not-allowed"
       THEN /\ micPermissionDenied' = TRUE
            /\ state' = "error"
            /\ calls' = <<Call("alert", NoArg)>> \o Notices("error")
            /\ Rerender("error")
            /\ timers' = timers
     ELSE IF kind # "aborted"
       THEN /\ Pending < MaxTimers
            /\ timers' = Inc("restartAfterError")
            /\ calls' = <<>>
            /\ UNCHANGED <<animationFrameRef, animationLoops, micPermissionDenied, state, recognitionRef, isInitializedRef,
                           startTimer>>
     ELSE /\ calls' = <<>>
          /\ UNCHANGED <<animationFrameRef, animationLoops, micPermissionDenied, state, recognitionRef, isInitializedRef,
                         startTimer, timers>>
  /\ ev' = kind
  /\ UNCHANGED page
  /\ UNCHANGED <<isOpen, transcript, response, supported, rpcs, synthQ,
                 synthCancelled>>

\* recognition.onerror; the session ends after an error
OnError(kind) ==
  /\ cap \in {"starting", "on"}
  /\ cap' = "ending"
  /\ IF kind = "not-allowed"
       THEN /\ micPermissionDenied' = TRUE
            /\ state' = "idle"
            /\ calls' = <<Call("alert", NoArg)>> \o Notices("idle")
            /\ Rerender("idle")
            /\ timers' = timers
     ELSE IF kind # "aborted"
       THEN /\ Pending < MaxTimers
            /\ timers' = Inc("restartAfterError")
            /\ calls' = <<>>
            /\ UNCHANGED <<animationFrameRef, animationLoops, micPermissionDenied, state, recognitionRef, isInitializedRef,
                           startTimer>>
     ELSE /\ calls' = <<>>
          /\ UNCHANGED <<animationFrameRef, animationLoops, micPermissionDenied, state, recognitionRef, isInitializedRef,
                         startTimer, timers>>
  /\ ev' = kind
  /\ UNCHANGED page
  /\ UNCHANGED <<isOpen, transcript, response, supported, rpcs, synthQ,
                 synthCancelled>>

\* ----------------------------------------------------- the research request
\* speakResponse(text)
SpeakResponse(text) ==
  /\ synthQ < MaxSynth
  /\ state' = "speaking"
  /\ synthQ' = synthQ + 1
  /\ calls' = <<Call("speak", text)>> \o Notices("speaking")
  /\ Rerender("speaking")

\* the fetch resolves and its body parses: the rest of processVoiceInput's try
RpcResolve(out) ==
  /\ rpcs > 0
  /\ rpcs' = rpcs - 1
  /\ response' = out
  /\ SpeakResponse(out)
  /\ ev' = "rpcResolve"
  /\ UNCHANGED page
  /\ UNCHANGED <<isOpen, transcript, micPermissionDenied, supported, cap, timers,
                 synthCancelled>>

\* the fetch rejects or its body does not parse: processVoiceInput's catch
RpcReject ==
  /\ rpcs > 0
  /\ Pending < MaxTimers
  /\ rpcs' = rpcs - 1
  /\ timers' = Inc("rearmAfterFailure")
  /\ calls' = <<>>
  /\ ev' = "rpcReject"
  /\ UNCHANGED page
  /\ UNCHANGED <<animationFrameRef, animationLoops, isOpen, state, transcript, response, micPermissionDenied,
                 recognitionRef, isInitializedRef, supported, cap, startTimer, synthQ,
                 synthCancelled>>

\* --------------------------------------------------------------- synthesis
\* utterance.onend
UtteranceOnEnd ==
  /\ Pending < MaxTimers
  /\ timers' = Inc("rearmAfterSpeech")

\* the utterance completes
SynthEnd ==
  /\ synthQ > 0
  /\ synthQ' = synthQ - 1
  /\ UtteranceOnEnd
  /\ calls' = <<>>
  /\ ev' = "synthEnd"
  /\ UNCHANGED page
  /\ UNCHANGED <<animationFrameRef, animationLoops, isOpen, state, transcript, response, micPermissionDenied,
                 recognitionRef, isInitializedRef, supported, cap, startTimer, rpcs,
                 synthCancelled>>

\* the utterance fails: the error event, for which no handler is installed
SynthError ==
  /\ synthQ > 0
  /\ synthQ' = synthQ - 1
  /\ calls' = <<>>
  /\ ev' = "synthError"
  /\ UNCHANGED page
  /\ UNCHANGED <<animationFrameRef, animationLoops, isOpen, state, transcript, response, micPermissionDenied,
                 recognitionRef, isInitializedRef, supported, cap, startTimer, timers,
                 rpcs, synthCancelled>>

\* an utterance removed by speechSynthesis.cancel() delivers an end event
SynthCancelEnd ==
  /\ synthCancelled > 0
  /\ synthCancelled' = synthCancelled - 1
  /\ UtteranceOnEnd
  /\ calls' = <<>>
  /\ ev' = "synthCancelEnd"
  /\ UNCHANGED page
  /\ UNCHANGED <<animationFrameRef, animationLoops, isOpen, state, transcript, response, micPermissionDenied,
                 recognitionRef, isInitializedRef, supported, cap, startTimer, rpcs,
                 synthQ>>

\* ------------------------------------------------------------------ timers
\* try { start(); setState('listening'); [setTranscript('')] } catch { setState('idle') }
\* under the guard `recognitionRef.current && isOpen` of the handlers' render
Rearm(clear) ==
  IF recognitionRef.created /\ recognitionRef.isOpen
    THEN /\ calls' = <<Call("start", NoArg)>>
                     \o Notices(IF StartThrows THEN "idle" ELSE "listening")
         /\ IF StartThrows
              THEN /\ state' = "idle"
                   /\ Rerender("idle")
                   /\ UNCHANGED <<cap, transcript>>
              ELSE /\ cap' = "starting"
                   /\ state' = "listening"
                   /\ transcript' = IF clear THEN <<>> ELSE transcript
                   /\ Rerender("listening")
    ELSE /\ calls' = <<>>
         /\ UNCHANGED <<animationFrameRef, animationLoops, state, cap, transcript, recognitionRef, isInitializedRef,
                        startTimer>>

\* RearmAfterFailure that sets the state without starting capture
RearmAfterFailureWithoutStart ==
  /\ state' = "listening"
  /\ calls' = Notices("listening")
  /\ Rerender("listening")
  /\ UNCHANGED <<cap, transcript>>

\* the 1000 ms timer of processVoiceInput's catch
RearmAfterFailure == Rearm(FALSE)

\* RearmAfterSpeech that leaves the transcript of the previous turn
RearmAfterSpeechKeepingTranscript == Rearm(FALSE)

\* the 500 ms timer of utterance.onend
RearmAfterSpeech == Rearm(TRUE)

\* try { start() } catch { setState('idle') } under guard g
Restart(g) ==
  IF g
    THEN /\ calls' = <<Call("start", NoArg)>> \o Notices(IF StartThrows THEN "idle" ELSE state)
         /\ IF StartThrows
              THEN /\ state' = "idle"
                   /\ Rerender("idle")
                   /\ UNCHANGED <<cap, transcript>>
              ELSE /\ cap' = "starting"
                   /\ UNCHANGED <<animationFrameRef, animationLoops, state, transcript, recognitionRef, isInitializedRef,
                                  startTimer>>
    ELSE /\ calls' = <<>>
         /\ UNCHANGED <<animationFrameRef, animationLoops, state, cap, transcript, recognitionRef, isInitializedRef,
                        startTimer>>

\* the 100 ms timer of recognition.onend
RestartAfterEnd == Restart(recognitionRef.created /\ recognitionRef.isOpen)

\* the 1000 ms timer of recognition.onerror
RestartAfterError ==
  Restart(recognitionRef.created /\ recognitionRef.isOpen
          /\ recognitionRef.state = "listening")

TimerFire(k) ==
  /\ timers[k] > 0
  /\ timers' = Dec(k)
  /\ CASE k = "rearmAfterFailure" -> RearmAfterFailure
       [] k = "rearmAfterSpeech" -> RearmAfterSpeech
       [] k = "restartAfterEnd" -> RestartAfterEnd
       [] k = "restartAfterError" -> RestartAfterError
  /\ ev' = k
  /\ UNCHANGED page
  /\ UNCHANGED <<isOpen, response, micPermissionDenied, supported, rpcs,
                 synthQ, synthCancelled>>

\* ------------------------------------------------------------ visualizer
\* AnimationFrame with an animate() that clears the transcript it has drawn
AnimationFrameResettingTranscript ==
  /\ animationLoops > 0
  /\ ev' = "frame"
  /\ UNCHANGED page
  /\ transcript' = <<>>
  /\ calls' = <<Call("draw", <<animationFrameRef>>), Call("requestAnimationFrame", NoArg)>>
  /\ UNCHANGED <<isOpen, state, response, micPermissionDenied,
                 recognitionRef, isInitializedRef, supported, cap, startTimer,
                 timers, rpcs, synthQ, synthCancelled, animationFrameRef, animationLoops>>

\* the browser runs the pending animation frame: animate() draws the sphere
\* with the state its effect closed over and requests the next frame
AnimationFrame ==
  /\ animationLoops > 0
  /\ ev' = "frame"
  /\ UNCHANGED page
  /\ calls' = <<Call("draw", <<animationFrameRef>>), Call("requestAnimationFrame", NoArg)>>
  /\ UNCHANGED <<isOpen, state, transcript, response, micPermissionDenied,
                 recognitionRef, isInitializedRef, supported, cap, startTimer,
                 timers, rpcs, synthQ, synthCancelled, animationFrameRef, animationLoops>>

Next ==
  \/ Open
  \/ Close
  \/ CloseAgain
  \/ ToggleMute
  \/ StartTimerFire
  \/ OnStart
  \/ \E text \in Texts, final \in BOOLEAN : OnResult(text, final)
  \/ OnEnd
  \/ \E kind \in ErrorKinds : OnError(kind)
  \/ \E out \in Outputs : RpcResolve(out)
  \/ RpcReject
  \/ SynthEnd
  \/ SynthError
  \/ SynthCancelEnd
  \/ \E k \in TimerKinds : TimerFire(k)
  \/ AnimationFrame

Spec == Init /\ [][Next]_vars

\* ------------------------------------------------------------ the page
voiceVars == <<isOpen, state, transcript, response, micPermissionDenied,
               recognitionRef, isInitializedRef, supported, cap, startTimer,
               timers, rpcs, synthQ, synthCancelled, animationFrameRef,
               animationLoops>>

\* the page renders one search bar in the hero while it has no messages and
\* another in the footer once it has: a change of hasResults mounts a bar
\* whose query is empty
Remount(pg, has) == IF has = pg.hasResults THEN pg.query ELSE <<>>

\* onChange of the search input, which is disabled while isLoading
SetQuery(text) ==
  /\ ~page.isLoading
  /\ page' = [page EXCEPT !.query = text]
  /\ ev' = "setQuery"
  /\ calls' = <<>>
  /\ UNCHANGED voiceVars

\* handleSubmit up to its await: nothing for a blank query or while
\* isLoading, else the flag is raised and the request leaves, as a follow-up
\* of the current session when the page shows results
HandleSubmitted(pg) ==
  IF Trim(pg.query) = <<>> \/ pg.isLoading
  THEN pg
  ELSE [pg EXCEPT !.isLoading = TRUE,
                  !.posts[IF pg.hasResults THEN pg.currentSessionId ELSE NoSession] = @ + 1]

HandleSubmit ==
  /\ HandleSubmitted(page) # page => PostsInFlight(page) < MaxPosts
  /\ page' = HandleSubmitted(page)
  /\ ev' = "submit"
  /\ calls' = IF page' = page THEN <<>>
              ELSE <<Call("post", <<IF page.hasResults THEN page.currentSessionId ELSE NoSession>>)>>
  /\ UNCHANGED voiceVars

\* handleSubmit after a response: handleResultsUpdate stores the messages
\* and the session id of the response (a follow-up keeps the id it was sent
\* with), the query is cleared and the flag is lowered
PostResolve(f, sid) ==
  /\ page.posts[f] > 0
  /\ page' = [page EXCEPT !.posts[f] = @ - 1,
                          !.hasResults = TRUE,
                          !.currentSessionId =
                             IF f # NoSession THEN f
                             ELSE IF sid # NoSession THEN sid ELSE @,
                          !.query = <<>>,
                          !.isLoading = FALSE]
  /\ ev' = "postResolve"
  /\ calls' = <<>>
  /\ UNCHANGED voiceVars

\* handleSubmit after a failed request: the error is logged and the flag is
\* lowered
PostReject(f) ==
  /\ page.posts[f] > 0
  /\ page' = [page EXCEPT !.posts[f] = @ - 1, !.isLoading = FALSE]
  /\ ev' = "postReject"
  /\ calls' = <<>>
  /\ UNCHANGED voiceVars

\* handleSelectQuery, called by the history list of the sidebar: with a
\* session id the flag is raised and the session is fetched, without one the
\* page is emptied
HandleSelectQuery(sid) ==
  /\ sid # NoSession => page.gets < MaxGets
  /\ page' = IF sid # NoSession
             THEN [page EXCEPT !.isLoading = TRUE,
                               !.currentSessionId = sid,
                               !.gets = @ + 1]
             ELSE [page EXCEPT !.hasResults = FALSE,
                               !.currentSessionId = NoSession,
                               !.query = Remount(page, FALSE)]
  /\ ev' = "selectQuery"
  /\ calls' = IF sid # NoSession THEN <<Call("get", <<sid>>)>> ELSE <<>>
  /\ UNCHANGED voiceVars

\* the history request resolves: its messages are shown, the flag is lowered
GetResolve ==
  /\ page.gets > 0
  /\ page' = [page EXCEPT !.gets = @ - 1,
                          !.hasResults = TRUE,
                          !.query = Remount(page, TRUE),
                          !.isLoading = FALSE]
  /\ ev' = "getResolve"
  /\ calls' = <<>>
  /\ UNCHANGED voiceVars

\* the history request fails: the error is kept, the flag is lowered
GetReject ==
  /\ page.gets > 0
  /\ page' = [page EXCEPT !.gets = @ - 1, !.isLoading = FALSE]
  /\ ev' = "getReject"
  /\ calls' = <<>>
  /\ UNCHANGED voiceVars

SearchNext ==
  \/ \E text \in Texts : SetQuery(text)
  \/ HandleSubmit
  \/ \E f \in FollowUps, sid \in FollowUps : PostResolve(f, sid)
  \/ \E f \in FollowUps : PostReject(f)
  \/ \E sid \in FollowUps : HandleSelectQuery(sid)
  \/ GetResolve
  \/ GetReject

SearchSpec == Init /\ [][SearchNext]_vars
\* ======================================================================
\* Properties
\* ======================================================================
\* a capture session that has signalled its start and has not been asked to
\* stop, has not failed and has not ended
CaptureActive == cap = "on"
SynthesisActive == synthQ > 0
RpcInFlight == rpcs > 0

Ops(cs) == {cs[i].op : i \in 1..Len(cs)}

\* C1: after close(), while the surface stays closed, ConversationTurnState
\* stays Idle whatever stale event arrives.
C1_ClosedStaysIdle == ~isOpen => state = "idle"

\* C2: between close() and the next open() no step of the controller invokes
\* capture start() or SynthesisSink.speak().
C2_ClosedStartsNothing == ~isOpen => Ops(calls) \cap {"start", "speak"} = {}

\* C3: a capture session is active if and only if ConversationTurnState is
\* Listening, after every transition.  A session whose start was requested
\* and not yet signalled is accepted on either side.
C3_CaptureIffListening ==
  cap # "starting" => (CaptureActive <=> state = "listening")

\* C4: a final transcript received while state is Processing or Speaking is
\* ignored: the step changes no conversation state and issues no request.
C4_FinalIgnoredWhileBusy ==
  [][(ev' = "final" /\ state \in {"processing", "speaking"})
       => (state' = state /\ rpcs' = rpcs /\ "fetch" \notin Ops(calls'))]_vars

\* C5: a synthesis failure while Speaking with the surface open is handled as
\* a synthesis completion: the capture re-arm is scheduled.
C5_SynthFailureRearms ==
  [][(ev' = "synthError" /\ state = "speaking" /\ isOpen)
       => timers'["rearmAfterSpeech"] = timers["rearmAfterSpeech"] + 1]_vars

\* C6: when a capture session ends on its own (no stop() was requested) while
\* state is Listening and the surface is open, the controller schedules the
\* restart of capture.
C6_UnexpectedEndRestarts ==
  [][(ev' = "onend" /\ cap = "on" /\ state = "listening" /\ isOpen)
       => timers'["restartAfterEnd"] = timers["restartAfterEnd"] + 1]_vars

\* C7: the successful turn.  In Listening an interim transcript changes no
\* state; a non-empty final transcript enters Processing, stops capture and
\* issues exactly one request carrying that text; the resolution of the
\* request in Processing enters Speaking and speaks the report text; the
\* completion of the utterance schedules the re-arm, and when the re-arm timer
\* fires (surface open, the stopped session ended) the controller is Listening
\* again with capture started and an empty transcript.
C7_SuccessfulTurn ==
  [][/\ (ev' = "interim" /\ state = "listening")
          => (state' = "listening" /\ calls' = <<>> /\ rpcs' = rpcs)
     /\ (ev' = "final" /\ state = "listening" /\ Trim(transcript') # <<>>)
          => /\ state' = "processing"
             /\ calls' = <<Call("stop", NoArg), Call("fetch", transcript')>>
             /\ rpcs' = rpcs + 1
             /\ cap' \notin {"starting", "on"}
     /\ (ev' = "rpcResolve" /\ state = "processing" /\ isOpen)
          => /\ state' = "speaking"
             /\ calls' = <<Call("speak", response')>>
             /\ synthQ' = synthQ + 1
     /\ (ev' = "synthEnd" /\ state = "speaking")
          => /\ state' = "speaking"
             /\ timers'["rearmAfterSpeech"] = timers["rearmAfterSpeech"] + 1
     /\ (ev' = "rearmAfterSpeech" /\ state = "speaking" /\ isOpen /\ cap = "off")
          => /\ state' = "listening"
             /\ cap' = "starting"
             /\ calls' = <<Call("start", NoArg)>>
             /\ transcript' = <<>>]_vars

\* the re-arm after a spoken report has just put an open surface back in Listening
C7_Witness ==
  /\ ev = "rearmAfterSpeech"
  /\ isOpen
  /\ state = "listening"
  /\ cap = "starting"
  /\ transcript = <<>>
  /\ response = Report
  /\ rpcs = 0
  /\ synthQ = 0

\* C8: RPC failure.  The rejection of the request in Processing speaks
\* nothing, leaves the state Processing and schedules the failure re-arm; when
\* that timer fires (surface open, the stopped session ended) the controller
\* goes from Processing to Listening with capture started.
C8_RpcFailureRearms ==
  [][/\ (ev' = "rpcReject" /\ state = "processing")
          => /\ state' = "processing"
             /\ calls' = <<>>
             /\ synthQ' = synthQ
             /\ timers'["rearmAfterFailure"] = timers["rearmAfterFailure"] + 1
     /\ (ev' = "rearmAfterFailure" /\ state = "processing" /\ isOpen /\ cap = "off")
          => /\ state' = "listening"
             /\ cap' = "starting"
             /\ calls' = <<Call("start", NoArg)>>]_vars

\* the failure re-arm has just put an open surface back in Listening and no
\* response was ever received, so Speaking was never entered
C8_Witness ==
  /\ ev = "rearmAfterFailure"
  /\ isOpen
  /\ state = "listening"
  /\ cap = "starting"
  /\ response = <<>>
  /\ rpcs = 0

\* C9: at most one of capture session, synthesis playback and RPC request is
\* active, and no two requests are in flight together.
C9_OneHoldsTheFloor ==
  /\ rpcs <= 1
  /\ ~(CaptureActive /\ SynthesisActive)
  /\ ~(CaptureActive /\ RpcInFlight)
  /\ ~(SynthesisActive /\ RpcInFlight)

\* C10: a permission-denied capture error in Listening makes the state Idle
\* and the permission Denied; while the permission is Denied a toggleMute()
\* changes no state and calls no capability.
C10_DeniedDisablesMute ==
  [][/\ (ev' = "not-allowed" /\ state = "listening")
          => (state' = "idle" /\ micPermissionDenied')
     /\ (ev' = "toggleMute" /\ micPermissionDenied)
          => (state' = state /\ cap' = cap /\ micPermissionDenied' /\ calls' = <<>>)]_vars

\* toggleMute() has just been handled with the permission denied
C10_Witness ==
  /\ ev = "toggleMute"
  /\ isOpen
  /\ micPermissionDenied
  /\ state = "idle"
  /\ calls = <<>>
\* C11: once the permission is Denied the controller no longer calls capture
\* start() (from the grace-delay timer, a re-arm timer, an auto-restart or an
\* unmute), and the permission stays Denied until the surface is closed.
C11_DeniedStopsAcquiring ==
  [][/\ micPermissionDenied' => "start" \notin Ops(calls')
     /\ (micPermissionDenied /\ ev' # "close") => micPermissionDenied']_vars
\* C12: toggleMute() while the state is Processing or Speaking changes
\* nothing: state, transcript and permission status stay as they are and
\* neither start() nor stop() is called on capture.
C12_ToggleMuteBusyNoOp ==
  [][(ev' = "toggleMute" /\ state \in {"processing", "speaking"})
       => /\ UNCHANGED <<state, transcript, micPermissionDenied, cap>>
          /\ Ops(calls') \cap {"start", "stop"} = {}]_vars

C12_Witness ==
  /\ ev = "toggleMute"
  /\ state = "processing"
  /\ rpcs = 1
  /\ calls = <<>>
\* C13: close() while the state is Speaking cancels synthesis, leaves the
\* state Idle and stops the visualizer loop, and capture is not restarted
\* afterwards: neither the completion event of the cancelled utterance nor a
\* settle-delay timer pending at the close calls start() or moves the state.
C13_CloseWhileSpeaking ==
  [][/\ (ev' = "close" /\ state = "speaking")
          => /\ "cancel" \in Ops(calls')
             /\ state' = "idle"
             /\ animationFrameRef' = "none"
     /\ (ev = "close" /\ ev' \in {"synthCancelEnd", "rearmAfterSpeech"})
          => /\ "start" \notin Ops(calls')
             /\ state' = "idle"]_vars
C15_BlankFinalDiscarded ==
  [][(ev' = "final" /\ state = "listening" /\ Trim(transcript') = <<>>)
       => /\ state' = "listening"
          /\ rpcs' = rpcs
          /\ Ops(calls') \cap {"stop", "fetch"} = {}
          /\ cap = "on" => cap' = "on"]_vars

C15_Witness ==
  /\ ev = "final"
  /\ transcript = <<" ">>
  /\ state = "listening"
  /\ cap = "on"
  /\ rpcs = 0
  /\ calls = <<>>
\* C16: in a runtime without the capture capability the state is always
\* Idle, no RPC is ever in flight, nothing is ever spoken and no step calls
\* fetch, speak or start, whatever open, close and toggleMute events occur.
C16_UnsupportedStaysIdle ==
  ~supported
    => /\ state = "idle"
       /\ rpcs = 0
       /\ synthQ = 0
       /\ cap = "off"
       /\ Ops(calls) \cap {"fetch", "speak", "start"} = {}

C16_Witness ==
  /\ ~supported
  /\ isOpen
  /\ ev = "toggleMute"
  /\ state = "idle"
\* C17: in a runtime without the capture capability the unsupported notice
\* is surfaced exactly once per open of the surface: the open() step
\* surfaces it once, and no later step (a toggleMute() or a re-render of
\* the same open) surfaces it again.
C17_UnsupportedNoticeOnce ==
  [][/\ (~supported /\ ev' = "open") => calls' = <<Call("alert", NoArg)>>
     /\ (~supported /\ ev' # "open") => "alert" \notin Ops(calls')]_vars
C19_StateIsOneOfFour ==
  /\ state \in {"idle", "listening", "processing", "speaking"}
  /\ ev = "mount" => state = "idle"

C19_Witness ==
  /\ ev = "not-allowed"
  /\ micPermissionDenied
  /\ state = "idle"
  /\ response # <<>>
\* C20: events of an earlier session are ignored once they are no longer
\* current.  A request in flight, a cancelled utterance or a re-arm timer
\* pending in the state that open() produced was issued before that open();
\* when the new session is still Idle and its resolution, completion or
\* expiry is the next event, the state does not change, nothing is spoken
\* and capture is not started.
C20_StaleEventsIgnored ==
  [][(/\ ev = "open"
      /\ state = "idle"
      /\ ev' \in {"rpcResolve", "rpcReject", "synthCancelEnd",
                  "rearmAfterSpeech", "rearmAfterFailure"})
       => /\ state' = state
          /\ Ops(calls') \cap {"speak", "start"} = {}]_vars
\* C21: no double-start: whichever site calls it (grace-delay timer, unmute,
\* re-arm after synthesis or after an RPC failure, auto-restart), capture
\* start() is invoked only when no capture session is starting, active or
\* still ending.
C21_NoDoubleStart ==
  [][("start" \in Ops(calls')) => cap = "off"]_vars
\* C22: a transient recognition error (aborted, or any kind other than the
\* permission denial) received in Listening on an open surface is recovered
\* without user action: the state stays Listening, the restart timer that the
\* error schedules calls start() once the session has ended, and the end of
\* a session that was aborted schedules a restart.
C22_TransientErrorRecovered ==
  [][/\ (ev' \in {"aborted", "network"} /\ state = "listening" /\ isOpen)
          => state' = "listening"
     /\ (ev' = "restartAfterError" /\ state = "listening" /\ isOpen /\ cap = "off")
          => /\ "start" \in Ops(calls')
             /\ state' = "listening"
     /\ (ev = "aborted" /\ ev' = "onend" /\ state = "listening" /\ isOpen)
          => timers'["restartAfterEnd"] = timers["restartAfterEnd"] + 1]_vars
\* C23: on the step from Listening to Processing the controller calls
\* capture stop() before it issues the request, and capture is not active in
\* any state in which a request is outstanding.
C23_StopBeforeRpc ==
  [][/\ (state = "listening" /\ state' = "processing")
          => \E i, j \in 1..Len(calls') :
               i < j /\ calls'[i].op = "stop" /\ calls'[j].op = "fetch"
     /\ RpcInFlight' => ~CaptureActive']_vars
\* C24: the transcript buffer is empty whenever a new Listening phase
\* begins, whichever step enters Listening (the start event of the
\* grace-delay start, unmute, re-arm after synthesis, re-arm after an RPC
\* failure).
C24_ListeningStartsEmpty ==
  [][(state # "listening" /\ state' = "listening") => transcript' = <<>>]_vars

\* C25: the transcript buffer is cleared on the step from Processing to
\* Speaking: whenever the state is Speaking the transcript is empty.
C25_SpeakingHasEmptyTranscript ==
  state = "speaking" => transcript = <<>>
\* C26: an explicit mute (toggleMute() in Listening) requests capture stop()
\* and makes the state Idle; a late transcript, start event or end event
\* that the stopped session delivers next leaves the state Idle and issues
\* no RPC.
C26_MuteStaysIdle ==
  [][/\ (ev' = "toggleMute" /\ state = "listening")
          => /\ "stop" \in Ops(calls')
             /\ state' = "idle"
     /\ (/\ ev = "toggleMute" /\ "stop" \in Ops(calls) /\ state = "idle"
         /\ ev' \in {"interim", "final", "onstart", "onend"})
          => /\ state' = "idle"
             /\ rpcs' = rpcs]_vars
\* C27: the end of a session for which the controller itself requested
\* stop() (for a mute, for the step from Listening to Processing, or for
\* close) never makes the controller restart capture: handling the end
\* signal schedules no restart and calls no start().
C27_NoRestartAfterOwnStop ==
  [][(ev' = "onend" /\ cap \in {"stopStarting", "stopping"})
       => /\ timers' = timers
          /\ "start" \notin Ops(calls')
          /\ cap' = "off"]_vars

C27_Witness ==
  /\ ev = "onend"
  /\ isOpen
  /\ state = "processing"
  /\ rpcs = 1
  /\ cap = "off"
  /\ Pending = 0

\* C28: a capture end-of-session signal never changes the state, whatever
\* the state is: the state after the end handler ran, and after the restart
\* attempt it scheduled ran, is the state before.
C28_EndKeepsState ==
  [][(ev' \in {"onend", "restartAfterEnd"}) => state' = state]_vars

C28_Witness ==
  /\ ev = "onend"
  /\ isOpen
  /\ state = "listening"
  /\ cap = "off"
\* C29: a backend failure is never spoken: speak() is called only with the
\* report text of a successful response; a rejected request, or a response
\* whose body parses but carries no report, calls no speak() and does not
\* make the state Speaking.
C29_FailureNeverSpoken ==
  [][/\ \A i \in 1..Len(calls') : calls'[i].op = "speak" => calls'[i].arg = Report
     /\ (ev' = "rpcReject" \/ (ev' = "rpcResolve" /\ response' = NoOutput))
          => /\ "speak" \notin Ops(calls')
             /\ state' = "speaking" => state = "speaking"]_vars
\* C30: after open(), with capture supported and the permission not denied,
\* the grace-delay timer calls capture start() exactly once and the session
\* it starts leads to Listening; a close() or an unmute before the delay
\* elapses cancels the delayed start: no grace-delay timer is pending on a
\* closed surface or after an unmute.
C30_GraceStartOnce ==
  [][/\ (ev' = "startTimer" /\ isOpen /\ supported /\ ~micPermissionDenied)
          => /\ calls' = <<Call("start", NoArg)>>
             /\ cap' = "starting"
             /\ ~startTimer'
     /\ (ev' = "onstart" /\ ev = "startTimer") => state' = "listening"
     /\ ev' = "close" => ~startTimer'
     /\ (ev' = "toggleMute" /\ "start" \in Ops(calls')) => ~startTimer']_vars
\* C31: an interim (non-final) transcript event changes only the
\* transcript buffer: the state, the requests in flight, the capture session
\* and the synthesis queue are unchanged and no capability is called.
C31_InterimOnlyTranscript ==
  [][ev' = "interim"
       => /\ UNCHANGED <<state, micPermissionDenied, rpcs, cap, synthQ, timers, isOpen>>
          /\ calls' = <<>>]_vars

C31_Witness ==
  /\ ev = "interim"
  /\ transcript = <<"a">>
  /\ state = "listening"
  /\ cap = "on"
  /\ rpcs = 0
\* C32: in every reachable state synthesis playback is active if and only
\* if the state is Speaking, the interval between the completion of the
\* utterance and the end of the settle delay counting as Speaking: an
\* utterance is queued or playing only in Speaking, and in Speaking an
\* utterance is queued or playing or its settle timer is pending.
C32_SynthesisIffSpeaking ==
  /\ SynthesisActive => state = "speaking"
  /\ state = "speaking" => (SynthesisActive \/ timers["rearmAfterSpeech"] > 0)

\* C33: in every reachable state a backend request is in flight if and only
\* if the state is Processing, the interval between a rejection and the end
\* of the failure re-arm delay counting as Processing: a request is in
\* flight only in Processing (also after a close during Processing), and in
\* Processing a request is in flight or its re-arm timer is pending.
C33_RpcIffProcessing ==
  /\ RpcInFlight => state = "processing"
  /\ state = "processing" => (RpcInFlight \/ timers["rearmAfterFailure"] > 0)
\* C34: the visualizer never feeds back into the controller: an animation
\* frame, and the open() step that starts the animation loop, leave the
\* state, the transcript, the permission status and the capture, synthesis
\* and request activity unchanged; the step that stops the loop (close)
\* changes them only as the close effect does (C14).
C34_VisualizerNoFeedback ==
  [][(ev' \in {"frame", "open"})
       => UNCHANGED <<state, transcript, micPermissionDenied, cap, synthQ,
                     synthCancelled, rpcs, timers, response>>]_vars

C34_Witness ==
  /\ ev = "frame"
  /\ state = "listening"
  /\ transcript = <<"a">>
  /\ cap = "on"

\* C35: at most one animation loop is scheduled at any time: while the
\* surface is open exactly one loop has a frame requested, whatever state
\* changes occurred, and while it is closed none has, also when stale
\* events change the state meanwhile.
C35_OneAnimationLoop ==
  /\ animationLoops <= 1
  /\ isOpen => animationLoops = 1
  /\ ~isOpen => (animationLoops = 0 /\ animationFrameRef = "none")

C35_Witness ==
  /\ ~isOpen
  /\ state = "speaking"
  /\ ev = "rpcResolve"
  /\ animationLoops = 0

C37_SearchSingleFlight == PostsInFlight(page) <= 1

\* C37, the guard alone: a submit while isLoading is set or with a blank
\* query issues no request and changes nothing of the page.
C37_GuardedSubmitIssuesNothing ==
  [][(ev' = "submit" /\ (page.isLoading \/ Trim(page.query) = <<>>))
       => (calls' = <<>> /\ page' = page)]_vars

====
